---- MODULE Spec2Model ----
(***************************************************************************)
(* Model of the jobly resource managers: models/company.js, models/job.js  *)
(* and helpers/sql.js, running against a relational store with the tables  *)
(* companies(handle PK, name, description, num_employees, logo_url) and    *)
(* jobs(id PK serial, title, salary, equity, company_handle FK), and of    *)
(* the routes of routes/companies.js and routes/jobs.js that call them.    *)
(*                                                                         *)
(* Specifications                                                          *)
(*   Spec      create, get, update and remove of both managers;            *)
(*   SpecFind  findAll and findFiltered of both managers;                  *)
(*   SpecSql   sqlForPartialUpdate called on its own;                      *)
(*   SpecGet   GET /companies and GET /jobs;                               *)
(*   SpecPatch POST, PATCH and DELETE of /jobs;                            *)
(*   SpecRace  Company.create called by several requests at once.         *)
(*                                                                         *)
(* Encoding of values                                                      *)
(*   - a nullable value is <<>> (SQL NULL / JS null) or <<v>>;             *)
(*   - company names and job titles are sequences of one-character        *)
(*     strings, because ILIKE looks inside them; the other strings are     *)
(*     opaque;                                                             *)
(*   - an equity is a number of tenths (6 is the JS number 0.6, the        *)
(*     NUMERIC 0.6); the store hands a NUMERIC back as text ("0.6");       *)
(*   - a table is the set of its rows, a row a record keyed by the SQL     *)
(*     column names; what a manager returns is a record keyed by the       *)
(*     JS names of its RETURNING / SELECT list;                            *)
(*   - a JS object whose key order matters (the data of an update) is a    *)
(*     sequence of <<key, value>> pairs.                                   *)
(***************************************************************************)
EXTENDS Integers, Sequences, FiniteSets, TLC

VARIABLES
    companies,  \* the rows of table companies
    jobs,       \* the rows of table jobs
    nextId,     \* the next value of the sequence behind jobs.id
    last,       \* the last manager call: op, arg, outcome, result, stmts
    creating    \* the Company.create calls in progress, each with its position

vars == <<companies, jobs, nextId, last, creating>>

\* The model stops inserting jobs once the sequence has handed out MaxId ids.
MaxId == 2

NULL == <<>>

IsNull(v) == v = <<>>

Val(v) == v[1]

(***************************************************************************)
(* JS objects with ordered keys.                                           *)
(***************************************************************************)
Keys(obj) == [i \in 1..Len(obj) |-> obj[i][1]]

Values(obj) == [i \in 1..Len(obj) |-> obj[i][2]]

(***************************************************************************)
(* helpers/sql.js                                                          *)
(***************************************************************************)
\* An argument the caller left out.
Undefined == <<>>

\* The alias looked up for no field.
SqlNameNoAlias(jsToSql, colName) == colName

\* jsToSql[colName] || colName
SqlName(jsToSql, colName) ==
    IF colName \in DOMAIN jsToSql THEN jsToSql[colName] ELSE colName

\* sqlForPartialUpdate without its check of keys.length.
sqlForPartialUpdateUnchecked(dataToUpdate, jsToSql) ==
    LET keys == Keys(dataToUpdate)
    IN  [error   |-> "none",
         setCols |-> [idx \in 1..Len(keys) |->
                         [col |-> SqlName(Val(jsToSql), keys[idx]), ph |-> idx]],
         values  |-> Values(dataToUpdate)]

\* sqlForPartialUpdate mapping all the keys but the last one.
sqlForPartialUpdateDropsLast(dataToUpdate, jsToSql) ==
    LET keys == Keys(dataToUpdate)
    IN  IF Len(keys) = 0
        THEN [error |-> "BadRequestError"]
        ELSE [error   |-> "none",
              setCols |-> [idx \in 1..(Len(keys) - 1) |->
                              [col |-> SqlName(Val(jsToSql), keys[idx]), ph |-> idx]],
              values  |-> Values(dataToUpdate)]

\* A fragment "<col>"=$<ph> is the record [col |-> ..., ph |-> ...]; setCols is
\* the sequence of the fragments that the code joins with ", ".  jsToSql is
\* <<m>> for the object m the caller passed and Undefined when it passed
\* none: jsToSql[colName] then throws a TypeError.
sqlForPartialUpdate(dataToUpdate, jsToSql) ==
    LET keys == Keys(dataToUpdate)
    IN  IF Len(keys) = 0
        THEN [error |-> "BadRequestError"]
        ELSE IF jsToSql = Undefined
        THEN [error |-> "TypeError"]
        ELSE [error   |-> "none",
              setCols |-> [idx \in 1..Len(keys) |->
                              [col |-> SqlName(Val(jsToSql), keys[idx]), ph |-> idx]],
              values  |-> Values(dataToUpdate)]

(***************************************************************************)
(* The store.                                                              *)
(***************************************************************************)
CompanyColumns == {"handle", "name", "description", "num_employees", "logo_url"}

JobColumns == {"id", "title", "salary", "equity", "company_handle"}

\* NUMERIC to text, as the driver returns it.
NumericText(n) ==
    IF n = 0 THEN "0"
    ELSE IF n = 10 THEN "1"
    ELSE <<"0.1", "0.2", "0.3", "0.4", "0.5", "0.6", "0.7", "0.8", "0.9">>[n]

EquityOut(e) == IF IsNull(e) THEN NULL ELSE <<NumericText(Val(e))>>

\* UPDATE ... SET <setCols>: the row with every named column set to the value
\* its placeholder is bound to.
RECURSIVE ApplySet(_, _, _)
ApplySet(row, setCols, params) ==
    IF setCols = <<>> THEN row
    ELSE ApplySet([row EXCEPT ![Head(setCols).col] = params[Head(setCols).ph]],
                  Tail(setCols), params)

SetColumns(setCols) == {setCols[i].col : i \in 1..Len(setCols)}

\* jobs.company_handle REFERENCES companies ON DELETE CASCADE
CascadeJobs(handle) == {j \in jobs : j.company_handle # handle}

\* The rows of a set as a sequence in ascending id: ORDER BY id.
RECURSIVE OrderById(_)
OrderById(rows) ==
    IF rows = {} THEN <<>>
    ELSE LET first == CHOOSE r \in rows : \A q \in rows : r.id <= q.id
         IN  <<first>> \o OrderById(rows \ {first})

\* Every order a SELECT without ORDER BY may return the rows in.
RECURSIVE AnyOrder(_)
AnyOrder(rows) ==
    IF rows = {} THEN {<<>>}
    ELSE UNION {{<<r>> \o s : s \in AnyOrder(rows \ {r})} : r \in rows}

(***************************************************************************)
(* The text of a filter clause and what the store makes of it.             *)
(* The alphabet of names and titles is Chars.  It holds the characters     *)
(* the store reads specially inside '...' and inside an ILIKE pattern.     *)
(***************************************************************************)
Chars == {"a", "A", "b", "B", "_", "%", "'"}

Lower(c) == IF c = "A" THEN "a" ELSE IF c = "B" THEN "b" ELSE c

LowerStr(s) == [i \in 1..Len(s) |-> Lower(s[i])]

\* `'%${value}%'`: the value is pasted between the quotes as it is.
IlikeText(value) == <<"'", "%">> \o value \o <<"%", "'">>

\* The store's lexer on the text after an opening quote: '' is one quote of
\* the literal, a single ' ends it.
RECURSIVE ScanLiteral(_, _)
ScanLiteral(text, acc) ==
    IF text = <<>> THEN [ok |-> FALSE, str |-> acc, rest |-> <<>>]
    ELSE IF Head(text) = "'"
    THEN IF Len(text) >= 2 /\ text[2] = "'"
         THEN ScanLiteral(Tail(Tail(text)), Append(acc, "'"))
         ELSE [ok |-> TRUE, str |-> acc, rest |-> Tail(text)]
    ELSE ScanLiteral(Tail(text), Append(acc, Head(text)))

\* The clause text is one string literal and nothing else: over Chars, text
\* left after the closing quote is never the rest of a well-formed clause.
LiteralOk(text) ==
    LET lit == ScanLiteral(Tail(text), <<>>) IN lit.ok /\ lit.rest = <<>>

LiteralStr(text) == ScanLiteral(Tail(text), <<>>).str

\* string LIKE pattern: % is any run of characters, _ any one character.
RECURSIVE LikeMatch(_, _)
LikeMatch(pattern, str) ==
    IF pattern = <<>> THEN str = <<>>
    ELSE IF Head(pattern) = "%"
    THEN LikeMatch(Tail(pattern), str) \/ (str # <<>> /\ LikeMatch(pattern, Tail(str)))
    ELSE /\ str # <<>>
         /\ (Head(pattern) = "_" \/ Head(pattern) = Head(str))
         /\ LikeMatch(Tail(pattern), Tail(str))

\* string ILIKE pattern
IlikeMatch(pattern, str) == LikeMatch(LowerStr(pattern), LowerStr(str))

\* One element of paramArr: `<col> ILIKE <text>` or `<col> <op> <num>`.
IlikeClause(col, value) == [col |-> col, op |-> "ILIKE", text |-> IlikeText(value), num |-> 0]

NumClause(col, op, num) == [col |-> col, op |-> op, text |-> <<>>, num |-> num]

\* A comparison with NULL is not true.
ClauseHolds(clause, row) ==
    IF clause.op = "ILIKE" THEN IlikeMatch(LiteralStr(clause.text), row[clause.col])
    ELSE /\ ~IsNull(row[clause.col])
         /\ CASE clause.op = ">=" -> Val(row[clause.col]) >= clause.num
              [] clause.op = "<=" -> Val(row[clause.col]) <= clause.num
              [] clause.op = ">"  -> Val(row[clause.col]) > clause.num

\* `WHERE ${paramArr.join(" AND ")}` parses: it is not `WHERE ` with nothing
\* after it, and every literal in it is closed.
WhereOk(paramArr) ==
    /\ paramArr # <<>>
    /\ \A i \in 1..Len(paramArr) : paramArr[i].op = "ILIKE" => LiteralOk(paramArr[i].text)

WhereHolds(paramArr, row) == \A i \in 1..Len(paramArr) : ClauseHolds(paramArr[i], row)

HasOwn(obj, key) == obj[key] # <<>>

\* The order of the store's collation on one character and on strings.
CharRank(c) ==
    CASE c = "%" -> 1 [] c = "'" -> 2 [] c = "A" -> 3 [] c = "B" -> 4
      [] c = "_" -> 5 [] c = "a" -> 6 [] c = "b" -> 7

RECURSIVE StrLeq(_, _)
StrLeq(s, t) ==
    IF s = <<>> THEN TRUE
    ELSE IF t = <<>> THEN FALSE
    ELSE IF Head(s) = Head(t) THEN StrLeq(Tail(s), Tail(t))
    ELSE CharRank(Head(s)) < CharRank(Head(t))

\* ORDER BY name: every order of the rows in which the names ascend.
OrderByName(rows) ==
    {s \in AnyOrder(rows) :
        \A i \in 1..Len(s) : \A j \in i..Len(s) : StrLeq(s[i].name, s[j].name)}

\* An error of class thrown is a `class`: DuplicateError specializes
\* BadRequestError, and the other classes are apart.
IsA(thrown, class) ==
    thrown = class \/ (thrown = "DuplicateError" /\ class = "BadRequestError")

Call(op, arg, outcome, result, stmts) ==
    [op |-> op, arg |-> arg, outcome |-> outcome, result |-> result, stmts |-> stmts]

(***************************************************************************)
(* models/company.js                                                       *)
(***************************************************************************)
CompanyJsToSql == [numEmployees |-> "num_employees", logoUrl |-> "logo_url"]

\* handle, name, description, num_employees AS "numEmployees", logo_url AS "logoUrl"
CompanyOut(row) ==
    [handle |-> row.handle, name |-> row.name, description |-> row.description,
     numEmployees |-> row.num_employees, logoUrl |-> row.logo_url]

\* The duplicate check finding nothing.
DuplicateCheckFindsNone(handle) == {}

\* SELECT handle FROM companies WHERE handle = $1
DuplicateCheck(handle) == {c \in companies : c.handle = handle}

CompanyCreate(data) ==
    LET duplicateCheck == DuplicateCheck(data.handle)
        row == [handle |-> data.handle, name |-> data.name,
                description |-> data.description,
                num_employees |-> data.numEmployees, logo_url |-> data.logoUrl]
    IN  IF duplicateCheck # {}
        THEN /\ last' = Call("Company.create", data, "BadRequestError", NULL, <<"SELECT">>)
             /\ UNCHANGED <<companies, jobs, nextId, creating>>
        ELSE /\ companies' = companies \cup {row}
             /\ last' = Call("Company.create", data, "ok", CompanyOut(row),
                             <<"SELECT", "INSERT">>)
             /\ UNCHANGED <<jobs, nextId, creating>>

\* Every list Company.findAll() may return in the current store.
CompanyFindAllResults ==
    {[i \in 1..Len(s) |-> CompanyOut(s[i])] : s \in OrderByName(companies)}

CompanyFindAll ==
    /\ \E result \in CompanyFindAllResults :
          last' = Call("Company.findAll", NULL, "ok", result, <<"SELECT">>)
    /\ UNCHANGED <<companies, jobs, nextId, creating>>

CompanyParamArr(filterParams) ==
    (IF HasOwn(filterParams, "name")
     THEN <<IlikeClause("name", Val(filterParams.name))>> ELSE <<>>)
    \o (IF HasOwn(filterParams, "minEmployees")
        THEN <<NumClause("num_employees", ">=", Val(filterParams.minEmployees))>> ELSE <<>>)
    \o (IF HasOwn(filterParams, "maxEmployees")
        THEN <<NumClause("num_employees", "<=", Val(filterParams.maxEmployees))>> ELSE <<>>)

\* What Company.findFiltered(filterParams) does in the current store: the
\* outcome, and every list it may return.
CompanyQuery(filterParams) ==
    LET paramArr == CompanyParamArr(filterParams)
        rows == {c \in companies : WhereHolds(paramArr, c)}
    IN  IF ~WhereOk(paramArr)
        THEN [outcome |-> "StoreError", results |-> {NULL}]
        ELSE [outcome |-> "ok",
              results |-> {[i \in 1..Len(s) |-> CompanyOut(s[i])] : s \in OrderByName(rows)}]

CompanyFindFiltered(filterParams) ==
    LET q == CompanyQuery(filterParams)
    IN  /\ \E result \in q.results :
              last' = Call("Company.findFiltered", filterParams, q.outcome, result,
                           <<"SELECT">>)
        /\ UNCHANGED <<companies, jobs, nextId, creating>>

\* id, title, salary, equity, company_handle AS "companyHandle"
JobOut(row) ==
    [id |-> row.id, title |-> row.title, salary |-> row.salary,
     equity |-> EquityOut(row.equity), companyHandle |-> row.company_handle]

\* The rows of companies LEFT JOIN jobs ON companies.handle =
\* jobs.company_handle WHERE handle = $1, under the names of the SELECT list:
\* one row per job of the company, and for a company without jobs one row
\* with null in every job column.  A job column that is not nullable in jobs
\* holds <<v>> here.
CompanyGetRows(handle) ==
    UNION { LET matching == {j \in jobs : j.company_handle = c.handle}
            IN  IF matching = {}
                THEN {[handle |-> c.handle, name |-> c.name, description |-> c.description,
                       numEmployees |-> c.num_employees, logoUrl |-> c.logo_url,
                       id |-> NULL, title |-> NULL, salary |-> NULL, equity |-> NULL,
                       companyHandle |-> NULL]}
                ELSE {[handle |-> c.handle, name |-> c.name, description |-> c.description,
                       numEmployees |-> c.num_employees, logoUrl |-> c.logo_url,
                       id |-> <<j.id>>, title |-> <<j.title>>, salary |-> j.salary,
                       equity |-> EquityOut(j.equity),
                       companyHandle |-> <<j.company_handle>>] : j \in matching}
          : c \in {c \in companies : c.handle = handle} }

\* ({id, title, salary, equity, companyHandle}) => ({...}) on one joined row.
JoinedJob(row) ==
    [id |-> IF IsNull(row.id) THEN NULL ELSE Val(row.id),
     title |-> IF IsNull(row.title) THEN NULL ELSE Val(row.title),
     salary |-> row.salary,
     equity |-> row.equity,
     companyHandle |-> IF IsNull(row.companyHandle) THEN NULL ELSE Val(row.companyHandle)]

\* The test of company.id left out.
CompanyHasJobsAlways(company) == TRUE

\* company.id !== null
CompanyHasJobs(company) == ~IsNull(company.id)

CompanyGet(handle) ==
    LET found == CompanyGetRows(handle)
    IN  IF found = {}
        THEN /\ last' = Call("Company.get", handle, "NotFoundError", NULL, <<"SELECT">>)
             /\ UNCHANGED <<companies, jobs, nextId, creating>>
        ELSE \E rows \in AnyOrder(found) :
                LET company == rows[1]
                IN  /\ last' = Call("Company.get", handle, "ok",
                                    [handle |-> handle, name |-> company.name,
                                     description |-> company.description,
                                     numEmployees |-> company.numEmployees,
                                     logoUrl |-> company.logoUrl,
                                     jobs |-> IF CompanyHasJobs(company)
                                              THEN [i \in 1..Len(rows) |-> JoinedJob(rows[i])]
                                              ELSE <<>>],
                                    <<"SELECT">>)
                    /\ UNCHANGED <<companies, jobs, nextId, creating>>

\* UPDATE companies ... WHERE handle = $n
CompanyUpdateMatched(handle) == {c \in companies : c.handle = handle}

CompanyUpdate(handle, data) ==
    LET sql     == sqlForPartialUpdate(data, <<CompanyJsToSql>>)
        matched == CompanyUpdateMatched(handle)
        updated == {ApplySet(c, sql.setCols, sql.values) : c \in matched}
    IN  IF sql.error # "none"
        THEN /\ last' = Call("Company.update", <<handle, data>>, sql.error, NULL, <<>>)
             /\ UNCHANGED <<companies, jobs, nextId, creating>>
        ELSE IF ~(SetColumns(sql.setCols) \subseteq CompanyColumns)
        THEN /\ last' = Call("Company.update", <<handle, data>>, "StoreError", NULL,
                             <<"UPDATE">>)
             /\ UNCHANGED <<companies, jobs, nextId, creating>>
        ELSE IF matched = {}
        THEN /\ last' = Call("Company.update", <<handle, data>>, "NotFoundError", NULL,
                             <<"UPDATE">>)
             /\ UNCHANGED <<companies, jobs, nextId, creating>>
        ELSE /\ companies' = (companies \ matched) \cup updated
             /\ \E company \in updated :
                    last' = Call("Company.update", <<handle, data>>, "ok",
                                 CompanyOut(company), <<"UPDATE">>)
             /\ UNCHANGED <<jobs, nextId, creating>>

\* DELETE FROM companies WHERE handle = $1
CompanyRemoveMatched(handle) == {c \in companies : c.handle = handle}

CompanyRemove(handle) ==
    LET matched == CompanyRemoveMatched(handle)
    IN  IF matched = {}
        THEN /\ last' = Call("Company.remove", handle, "NotFoundError", NULL, <<"DELETE">>)
             /\ UNCHANGED <<companies, jobs, nextId, creating>>
        ELSE /\ companies' = companies \ matched
             /\ jobs' = CascadeJobs(handle)
             /\ last' = Call("Company.remove", handle, "ok", NULL, <<"DELETE">>)
             /\ UNCHANGED <<nextId, creating>>

(***************************************************************************)
(* models/job.js                                                           *)
(***************************************************************************)
JobJsToSql == <<>>

\* The company check without its WHERE clause.
CompanyCheckAnyCompany(companyHandle) == companies

\* SELECT handle FROM companies WHERE handle = $1
CompanyCheck(companyHandle) == {c \in companies : c.handle = companyHandle}

\* jobs.id of an inserted row: the next value of the table's sequence.
AssignedId == nextId

JobCreate(data) ==
    LET companyCheck == CompanyCheck(data.companyHandle)
        row == [id |-> AssignedId, title |-> data.title, salary |-> data.salary,
                equity |-> data.equity, company_handle |-> data.companyHandle]
    IN  IF companyCheck = {}
        THEN /\ last' = Call("Job.create", data, "BadRequestError", NULL, <<"SELECT">>)
             /\ UNCHANGED <<companies, jobs, nextId, creating>>
        ELSE /\ nextId <= MaxId
             /\ jobs' = jobs \cup {row}
             /\ nextId' = nextId + 1
             /\ last' = Call("Job.create", data, "ok", JobOut(row), <<"SELECT", "INSERT">>)
             /\ UNCHANGED <<companies, creating>>

JobFindAllResult == [i \in 1..Cardinality(jobs) |-> JobOut(OrderById(jobs)[i])]

JobFindAll ==
    /\ last' = Call("Job.findAll", NULL, "ok", JobFindAllResult, <<"SELECT">>)
    /\ UNCHANGED <<companies, jobs, nextId, creating>>

JobParamArr(filterParams) ==
    (IF HasOwn(filterParams, "title")
     THEN <<IlikeClause("title", Val(filterParams.title))>> ELSE <<>>)
    \o (IF HasOwn(filterParams, "minSalary")
        THEN <<NumClause("salary", ">=", Val(filterParams.minSalary))>> ELSE <<>>)
    \o (IF HasOwn(filterParams, "hasEquity")
        THEN (IF Val(filterParams.hasEquity) = TRUE
              THEN <<NumClause("equity", ">", 0)>> ELSE <<>>)
        ELSE <<>>)

\* What Job.findFiltered(filterParams) does in the current store.
JobQuery(filterParams) ==
    LET paramArr == JobParamArr(filterParams)
        rows == OrderById({j \in jobs : WhereHolds(paramArr, j)})
    IN  IF ~WhereOk(paramArr)
        THEN [outcome |-> "StoreError", result |-> NULL]
        ELSE [outcome |-> "ok", result |-> [i \in 1..Len(rows) |-> JobOut(rows[i])]]

JobFindFiltered(filterParams) ==
    LET q == JobQuery(filterParams)
    IN  /\ last' = Call("Job.findFiltered", filterParams, q.outcome, q.result, <<"SELECT">>)
        /\ UNCHANGED <<companies, jobs, nextId, creating>>

\* FROM jobs WHERE id = $1
JobGetRows(id) == {j \in jobs : j.id = id}

\* The SELECT list of Job.get without the salary column.
JobGetSelectNoSalary(row) ==
    [id |-> row.id, title |-> row.title, salary |-> NULL,
     equity |-> EquityOut(row.equity), companyHandle |-> row.company_handle]

\* The SELECT list of Job.get.
JobGetSelect(row) ==
    [id |-> row.id, title |-> row.title, salary |-> row.salary,
     equity |-> EquityOut(row.equity), companyHandle |-> row.company_handle]

JobGet(id) ==
    LET found == JobGetRows(id)
    IN  /\ IF found = {}
           THEN last' = Call("Job.get", id, "NotFoundError", NULL, <<"SELECT">>)
           ELSE \E job \in found :
                    last' = Call("Job.get", id, "ok", JobGetSelect(job), <<"SELECT">>)
        /\ UNCHANGED <<companies, jobs, nextId, creating>>

\* The UPDATE without its WHERE clause.
JobUpdateMatchedAll(id) == jobs

\* UPDATE jobs ... WHERE id = $n
JobUpdateMatched(id) == {j \in jobs : j.id = id}

JobUpdate(id, data) ==
    LET sql     == sqlForPartialUpdate(data, <<JobJsToSql>>)
        matched == JobUpdateMatched(id)
        updated == {ApplySet(j, sql.setCols, sql.values) : j \in matched}
    IN  IF sql.error # "none"
        THEN /\ last' = Call("Job.update", <<id, data>>, sql.error, NULL, <<>>)
             /\ UNCHANGED <<companies, jobs, nextId, creating>>
        ELSE IF ~(SetColumns(sql.setCols) \subseteq JobColumns)
        THEN /\ last' = Call("Job.update", <<id, data>>, "StoreError", NULL, <<"UPDATE">>)
             /\ UNCHANGED <<companies, jobs, nextId, creating>>
        ELSE IF matched = {}
        THEN /\ last' = Call("Job.update", <<id, data>>, "NotFoundError", NULL, <<"UPDATE">>)
             /\ UNCHANGED <<companies, jobs, nextId, creating>>
        ELSE /\ jobs' = (jobs \ matched) \cup updated
             /\ \E job \in updated :
                    last' = Call("Job.update", <<id, data>>, "ok", JobOut(job), <<"UPDATE">>)
             /\ UNCHANGED <<companies, nextId, creating>>

\* The DELETE without its WHERE clause.
JobRemoveMatchedAll(id) == jobs

\* DELETE FROM jobs WHERE id = $1
JobRemoveMatched(id) == {j \in jobs : j.id = id}

JobRemove(id) ==
    LET matched == JobRemoveMatched(id)
    IN  IF matched = {}
        THEN /\ last' = Call("Job.remove", id, "NotFoundError", NULL, <<"DELETE">>)
             /\ UNCHANGED <<companies, jobs, nextId, creating>>
        ELSE /\ jobs' = jobs \ matched
             /\ last' = Call("Job.remove", id, "ok", NULL, <<"DELETE">>)
             /\ UNCHANGED <<companies, nextId, creating>>

(***************************************************************************)
(* The calls the managers receive.                                         *)
(***************************************************************************)
CompanyInputs ==
    { [handle |-> "c1", name |-> <<"A", "b">>, description |-> "d1",
       numEmployees |-> <<1>>, logoUrl |-> <<"u1">>],
      [handle |-> "c2", name |-> <<"a">>, description |-> "d2",
       numEmployees |-> NULL, logoUrl |-> NULL] }

HandleInputs == {"c1", "c2", "nope"}

CompanyUpdates ==
    { <<>>,
      << <<"numEmployees", <<2>>>>, <<"name", <<"b">>>>, <<"logoUrl", NULL>> >> }

JobInputs ==
    { [title |-> <<"a">>, salary |-> <<1>>, equity |-> <<6>>, companyHandle |-> "c1"],
      [title |-> <<"A", "b">>, salary |-> NULL, equity |-> NULL, companyHandle |-> "c2"],
      [title |-> <<"b">>, salary |-> <<2>>, equity |-> <<0>>, companyHandle |-> "nope"] }

IdInputs == {-1} \cup (1..MaxId)

JobUpdates ==
    { <<>>,
      << <<"salary", <<2>>>>, <<"equity", NULL>> >>,
      << <<"title", <<"b">>>> >> }

Init ==
    /\ companies = {}
    /\ jobs = {}
    /\ nextId = 1
    /\ last = Call("none", NULL, "ok", NULL, <<>>)
    /\ creating = <<>>

Next ==
    \/ \E data \in CompanyInputs : CompanyCreate(data)
    \/ \E handle \in HandleInputs : CompanyGet(handle)
    \/ \E handle \in HandleInputs, data \in CompanyUpdates : CompanyUpdate(handle, data)
    \/ \E handle \in HandleInputs : CompanyRemove(handle)
    \/ \E data \in JobInputs : JobCreate(data)
    \/ \E id \in IdInputs : JobGet(id)
    \/ \E id \in IdInputs, data \in JobUpdates : JobUpdate(id, data)
    \/ \E id \in IdInputs : JobRemove(id)

Spec == Init /\ [][Next]_vars

(***************************************************************************)
(* sqlForPartialUpdate on its own: the calls of helpers/sql.test.js, with   *)
(* and without the second argument.                                        *)
(***************************************************************************)
\* The longest field mapping the helper is called with.
MaxFields == 2

FieldNames == {"firstName", "age", "test1"}

FieldValues == {"Sam", "age"}

\* The objects of up to MaxFields fields, in every key order.
FieldMappings ==
    UNION { {d \in [1..n -> FieldNames \X FieldValues] :
                \A i, j \in 1..n : d[i][1] = d[j][1] => i = j}
            : n \in 0..MaxFields }

AliasMappings ==
    { Undefined,
      << <<>> >>,
      << [firstName |-> "first_name"] >>,
      << [firstName |-> "first_name", age |-> "age_years"] >> }

SqlForPartialUpdate(dataToUpdate, jsToSql) ==
    LET sql == sqlForPartialUpdate(dataToUpdate, jsToSql)
    IN  /\ last' = IF sql.error # "none"
                   THEN Call("sqlForPartialUpdate", <<dataToUpdate, jsToSql>>, sql.error,
                             NULL, <<>>)
                   ELSE Call("sqlForPartialUpdate", <<dataToUpdate, jsToSql>>, "ok",
                             [setCols |-> sql.setCols, values |-> sql.values], <<>>)
        /\ UNCHANGED <<companies, jobs, nextId, creating>>

NextSql ==
    \E dataToUpdate \in FieldMappings, jsToSql \in AliasMappings :
        SqlForPartialUpdate(dataToUpdate, jsToSql)

SpecSql == Init /\ [][NextSql]_vars

(***************************************************************************)
(* The list queries, on stores filled by create.                           *)
(***************************************************************************)
FindCompanyInputs ==
    CompanyInputs \cup
    { [handle |-> "c3", name |-> <<"a", "_">>, description |-> "d3",
       numEmployees |-> <<2>>, logoUrl |-> NULL] }

FindJobInputs ==
    { [title |-> <<"a">>, salary |-> <<1>>, equity |-> <<6>>, companyHandle |-> "c1"],
      [title |-> <<"A", "b">>, salary |-> NULL, equity |-> NULL, companyHandle |-> "c2"],
      [title |-> <<"b", "_">>, salary |-> <<2>>, equity |-> <<0>>, companyHandle |-> "c1"],
      [title |-> <<"B", "'">>, salary |-> <<2>>, equity |-> <<1>>, companyHandle |-> "c3"] }

JobFilters ==
    [title     : {NULL, <<<<"a">>>>, <<<<"B">>>>, <<<<"_">>>>, <<<<"'">>>>, <<<<"'", "'">>>>},
     minSalary : {NULL, <<1>>, <<2>>},
     hasEquity : {NULL, <<TRUE>>, <<FALSE>>}]

CompanyFilters ==
    [name         : {NULL, <<<<"a">>>>, <<<<"B">>>>, <<<<"%">>>>, <<<<"'">>>>},
     minEmployees : {NULL, <<1>>, <<2>>},
     maxEmployees : {NULL, <<1>>, <<2>>}]

NextFind ==
    \/ \E data \in FindCompanyInputs : CompanyCreate(data)
    \/ \E data \in FindJobInputs : JobCreate(data)
    \/ CompanyFindAll
    \/ \E filterParams \in CompanyFilters : CompanyFindFiltered(filterParams)
    \/ JobFindAll
    \/ \E filterParams \in JobFilters : JobFindFiltered(filterParams)

SpecFind == Init /\ [][NextFind]_vars

(***************************************************************************)
(* routes/companies.js and routes/jobs.js: GET /.                          *)
(* req.query maps each key of the query string to its text, a sequence of  *)
(* characters: a key is NULL when the query string lacks it and <<text>>   *)
(* when it has it, <<<<>>>> for "key=".                                    *)
(***************************************************************************)
DigitChars == <<"0", "1", "2", "3", "4", "5", "6", "7", "8", "9">>

IsDigit(c) == \E d \in 1..Len(DigitChars) : DigitChars[d] = c

DigitValue(c) == (CHOOSE d \in 1..Len(DigitChars) : DigitChars[d] = c) - 1

AllDigits(text) == text # <<>> /\ \A i \in 1..Len(text) : IsDigit(text[i])

RECURSIVE DigitsValue(_)
DigitsValue(text) ==
    IF text = <<>> THEN 0
    ELSE DigitsValue(SubSeq(text, 1, Len(text) - 1)) * 10 + DigitValue(text[Len(text)])

NaN == <<>>

\* Number(text) of a decimal integer text: <<n>>, and NaN for a text that is
\* no number; Number("") is 0.
Number(text) ==
    IF text = <<>> THEN <<0>>
    ELSE IF AllDigits(text) THEN <<DigitsValue(text)>>
    ELSE IF Head(text) = "-" /\ AllDigits(Tail(text)) THEN <<0 - DigitsValue(Tail(text))>>
    ELSE NaN

isNaN(n) == n = NaN

\* if (req.query.key): the key is there and its text is not empty.
QueryTruthy(param) == param # Undefined /\ Val(param) # <<>>

\* if (filterParams.key), for a key the route sets to a number: set, not 0.
NumberTruthy(n) == n # Undefined /\ Val(n) # 0

\* Object.keys(req.query).length === 0
NoQueryKeys(query) == \A k \in DOMAIN query : query[k] = Undefined

\* filterParams.minEmployees && filterParams.maxEmployees &&
\* Number(filterParams.minEmployees) > Number(filterParams.maxEmployees)
BoundsCrossed(minEmployees, maxEmployees) ==
    /\ NumberTruthy(minEmployees)
    /\ NumberTruthy(maxEmployees)
    /\ Val(minEmployees) > Val(maxEmployees)

\* The else branch of GET / up to the call of findFiltered: the error it
\* hands to next(), or the filterParams it has built.
FilterParams(query) ==
    LET minEmployees == IF QueryTruthy(query.minEmployees)
                        THEN Number(Val(query.minEmployees)) ELSE Undefined
        maxEmployees == IF QueryTruthy(query.maxEmployees)
                        THEN Number(Val(query.maxEmployees)) ELSE Undefined
    IN  IF QueryTruthy(query.minEmployees) /\ isNaN(minEmployees)
        THEN [error |-> "BadRequestError"]
        ELSE IF QueryTruthy(query.maxEmployees) /\ isNaN(maxEmployees)
        THEN [error |-> "BadRequestError"]
        ELSE IF BoundsCrossed(minEmployees, maxEmployees)
        THEN [error |-> "BadRequestError"]
        ELSE [error |-> "none",
              filterParams |->
                  [name |-> IF QueryTruthy(query.name) THEN query.name ELSE Undefined,
                   minEmployees |-> minEmployees,
                   maxEmployees |-> maxEmployees]]

\* What a route answered: the request, the outcome ("ok" or the class of the
\* error given to next()), the body, the statements sent to the store and the
\* manager calls made.
RouteCall(op, arg, outcome, result, stmts, calls) ==
    [op |-> op, arg |-> arg, outcome |-> outcome, result |-> result, stmts |-> stmts,
     calls |-> calls]

ManagerCall(op, arg) == [op |-> op, arg |-> arg]

GetCompanies(query) ==
    /\ IF NoQueryKeys(query)
       THEN \E companiesRes \in CompanyFindAllResults :
               last' = RouteCall("GET /companies", query, "ok", companiesRes, <<"SELECT">>,
                                 <<ManagerCall("Company.findAll", <<>>)>>)
       ELSE LET f == FilterParams(query)
            IN  IF f.error # "none"
                THEN last' = RouteCall("GET /companies", query, f.error, NULL, <<>>, <<>>)
                ELSE LET q == CompanyQuery(f.filterParams)
                     IN  \E companiesRes \in q.results :
                            last' = RouteCall("GET /companies", query, q.outcome,
                                              companiesRes, <<"SELECT">>,
                                              <<ManagerCall("Company.findFiltered",
                                                            f.filterParams)>>)
    /\ UNCHANGED <<companies, jobs, nextId, creating>>

\* The names routes/jobs.js binds: its require lines and its router.
JobsRouteBindings ==
    {"jsonschema", "express", "BadRequestError", "ensureLoggedIn", "ensureIsAdmin", "Job",
     "jobNewSchema", "jobUpdateSchema", "response", "router"}

\* GET / of routes/jobs.js: the filter branch reads the keys of the companies
\* route and calls Company.findFiltered, a name the file does not bind.
GetJobs(query) ==
    /\ IF NoQueryKeys(query)
       THEN last' = RouteCall("GET /jobs", query, "ok", JobFindAllResult, <<"SELECT">>,
                              <<ManagerCall("Job.findAll", <<>>)>>)
       ELSE LET f == FilterParams(query)
            IN  IF f.error # "none"
                THEN last' = RouteCall("GET /jobs", query, f.error, NULL, <<>>, <<>>)
                ELSE IF "Company" \notin JobsRouteBindings
                THEN last' = RouteCall("GET /jobs", query, "ReferenceError", NULL, <<>>, <<>>)
                ELSE LET q == CompanyQuery(f.filterParams)
                     IN  \E companiesRes \in q.results :
                            last' = RouteCall("GET /jobs", query, q.outcome, companiesRes,
                                              <<"SELECT">>,
                                              <<ManagerCall("Company.findFiltered",
                                                            f.filterParams)>>)
    /\ UNCHANGED <<companies, jobs, nextId, creating>>

CompanyQueryStrings ==
    [name         : {Undefined, <<<<"a">>>>},
     minEmployees : {Undefined, <<<<>>>>, <<<<"0">>>>, <<<<"2">>>>, <<<<"k", "e", "k">>>>},
     maxEmployees : {Undefined, <<<<"0">>>>, <<<<"-", "1">>>>, <<<<"k", "e", "k">>>>},
     title        : {Undefined, <<<<"a">>>>},
     minSalary    : {Undefined},
     hasEquity    : {Undefined}]

JobQueryStrings ==
    [name         : {Undefined},
     minEmployees : {Undefined, <<<<"k", "e", "k">>>>},
     maxEmployees : {Undefined},
     title        : {Undefined, <<<<"a">>>>},
     minSalary    : {Undefined, <<<<"2">>>>, <<<<"k", "e", "k">>>>},
     hasEquity    : {Undefined, <<<<"t", "r", "u", "e">>>>}]

NextGet ==
    \/ \E data \in CompanyInputs : CompanyCreate(data)
    \/ \E data \in JobInputs : JobCreate(data)
    \/ \E query \in CompanyQueryStrings : GetCompanies(query)
    \/ \E query \in JobQueryStrings : GetJobs(query)

SpecGet == Init /\ [][NextGet]_vars

(***************************************************************************)
(* routes/jobs.js: POST /, PATCH /:id and DELETE /:id.                     *)
(***************************************************************************)
\* schemas/jobUpdate.json: the properties a body may have.
jobUpdateSchema == {"title", "salary", "equity"}

\* jsonschema.validate(body, schema), as far as the keys of the body go.
Validate(body, schema) == [valid |-> \A i \in 1..Len(body) : body[i][1] \in schema]

\* The test of the validator's verdict left out.
ValidatorRejectsNever(validator) == FALSE

\* if (!validator.valid)
ValidatorRejects(validator) == ~validator.valid

\* PATCH /:id: a body the schema refuses is answered with BadRequestError;
\* any other goes to Job.update, whose outcome is the answer.
PatchJob(id, body) ==
    LET validator == Validate(body, jobUpdateSchema)
    IN  IF ValidatorRejects(validator)
        THEN /\ last' = Call("PATCH /jobs/:id", <<id, body>>, "BadRequestError", NULL, <<>>)
             /\ UNCHANGED <<companies, jobs, nextId, creating>>
        ELSE JobUpdate(id, body)

PatchBodies ==
    JobUpdates \cup
    { << <<"id", 2>> >>,
      << <<"companyHandle", "c2">> >>,
      << <<"title", <<"b">>>>, <<"id", 1>> >> }

NextPatch ==
    \/ \E data \in CompanyInputs : CompanyCreate(data)
    \/ \E data \in JobInputs : JobCreate(data)
    \/ \E id \in IdInputs, body \in PatchBodies : PatchJob(id, body)
    \/ \E id \in IdInputs : JobRemove(id)

SpecPatch == Init /\ [][NextPatch]_vars

(***************************************************************************)
(* Company.create called by several requests at once.  A call runs up to   *)
(* its next await in one step: the store executes one statement, and the   *)
(* call goes on until it throws, returns or sends its next statement.      *)
(* creating[i] is call i: its data, its position pc ("duplicateCheck",     *)
(* "insert" or "done") and, once done, its outcome and result.             *)
(***************************************************************************)
\* The calls of Company.create in progress at once.
MaxCallers == 2

\* companies.handle is the primary key: an INSERT of a handle a row has fails.
PrimaryKeyTaken(handle) == \E c \in companies : c.handle = handle

\* await db.query(SELECT handle ...), then the throw for a row found or the
\* sending of the INSERT.
CreateDuplicateCheck(i) ==
    /\ creating[i].pc = "duplicateCheck"
    /\ LET data == creating[i].data
           duplicateCheck == DuplicateCheck(data.handle)
       IN  IF duplicateCheck # {}
           THEN /\ creating' = [creating EXCEPT ![i].pc = "done",
                                                ![i].outcome = "BadRequestError"]
                /\ last' = Call("Company.create", data, "BadRequestError", NULL, <<"SELECT">>)
           ELSE /\ creating' = [creating EXCEPT ![i].pc = "insert"]
                /\ UNCHANGED last
    /\ UNCHANGED <<companies, jobs, nextId>>

\* await db.query(INSERT INTO companies ...), then the return of the row, or
\* the store's error going up to the caller.
CreateInsert(i) ==
    /\ creating[i].pc = "insert"
    /\ LET data == creating[i].data
           row == [handle |-> data.handle, name |-> data.name,
                   description |-> data.description,
                   num_employees |-> data.numEmployees, logo_url |-> data.logoUrl]
       IN  IF PrimaryKeyTaken(data.handle)
           THEN /\ creating' = [creating EXCEPT ![i].pc = "done",
                                                ![i].outcome = "StoreError"]
                /\ last' = Call("Company.create", data, "StoreError", NULL,
                                <<"SELECT", "INSERT">>)
                /\ UNCHANGED companies
           ELSE /\ companies' = companies \cup {row}
                /\ creating' = [creating EXCEPT ![i].pc = "done",
                                                ![i].outcome = "ok",
                                                ![i].result = CompanyOut(row)]
                /\ last' = Call("Company.create", data, "ok", CompanyOut(row),
                                <<"SELECT", "INSERT">>)
    /\ UNCHANGED <<jobs, nextId>>

\* The data of the concurrent calls: two with the handle c1, one with c2.
RaceInputs ==
    CompanyInputs \cup
    { [handle |-> "c1", name |-> <<"b">>, description |-> "d1",
       numEmployees |-> <<2>>, logoUrl |-> NULL] }

\* MaxCallers calls about to start, on a store that has none of their handles.
InitRace ==
    /\ companies \in
           { {},
             {[handle |-> "c3", name |-> <<"a", "_">>, description |-> "d3",
               num_employees |-> <<2>>, logo_url |-> NULL]} }
    /\ jobs = {}
    /\ nextId = 1
    /\ last = Call("none", NULL, "ok", NULL, <<>>)
    /\ creating \in [1..MaxCallers ->
                        {[data |-> d, pc |-> "duplicateCheck", outcome |-> "none",
                          result |-> NULL] : d \in RaceInputs}]

NextRace ==
    \/ \E i \in 1..MaxCallers : CreateDuplicateCheck(i)
    \/ \E i \in 1..MaxCallers : CreateInsert(i)

SpecRace == InitRace /\ [][NextRace]_vars

(***************************************************************************)
(* What the specification says a filter means.                             *)
(***************************************************************************)
NoKeys(filterParams) == \A k \in DOMAIN filterParams : filterParams[k] = NULL

\* sub occurs in str, letters compared without case.
Contains(str, sub) ==
    \E i \in 0..(Len(str) - Len(sub)) :
        \A k \in 1..Len(sub) : Lower(str[i + k]) = Lower(sub[k])

TitleHolds(job, filterParams) ==
    HasOwn(filterParams, "title") => Contains(job.title, Val(filterParams.title))

MinSalaryHolds(job, filterParams) ==
    HasOwn(filterParams, "minSalary") =>
        (~IsNull(job.salary) /\ Val(job.salary) >= Val(filterParams.minSalary))

HasEquityHolds(job, filterParams) ==
    (HasOwn(filterParams, "hasEquity") /\ Val(filterParams.hasEquity)) =>
        (~IsNull(job.equity) /\ Val(job.equity) > 0)

\* Some jobs of the store, as findAll() lists them.
Listed(rows) ==
    LET ordered == OrderById(rows)
    IN  [i \in 1..Len(ordered) |-> JobOut(ordered[i])]

Elements(seq) == {seq[i] : i \in 1..Len(seq)}

\* f and g share no key; the filter with the keys of both.
DisjointKeys(f, g) == \A k \in DOMAIN f : f[k] = NULL \/ g[k] = NULL

Combined(f, g) == [k \in DOMAIN f |-> IF f[k] # NULL THEN f[k] ELSE g[k]]

(***************************************************************************)
(* Claims about the list queries, under SpecFind.                          *)
(***************************************************************************)

\* C1: for both managers, findFiltered with a filter that has no keys does
\* not fail and returns the records of findAll() in the same order.
C1_EmptyFilterIsFindAll ==
    /\ (last.op = "Job.findFiltered" /\ NoKeys(last.arg)) =>
           (last.outcome = "ok" /\ last.result = JobFindAllResult)
    /\ (last.op = "Company.findFiltered" /\ NoKeys(last.arg)) =>
           (last.outcome = "ok" /\ last.result \in CompanyFindAllResults)

\* C2: Job.findFiltered with hasEquity=false returns the jobs of findAll()
\* that satisfy the other supplied clauses (title, minSalary, both or
\* neither); with neither, it returns findAll().
C2_HasEquityFalseIsNoConstraint ==
    (last.op = "Job.findFiltered" /\ last.arg.hasEquity = <<FALSE>>) =>
        /\ last.outcome = "ok"
        /\ last.result =
               Listed({j \in jobs : TitleHolds(j, last.arg) /\ MinSalaryHolds(j, last.arg)})

\* C3: Job.findFiltered returns exactly the jobs for which every supplied
\* clause holds, by ascending id: title a case-insensitive substring,
\* salary >= minSalary (not null), equity > 0 (not null) for hasEquity=true.
C3_FindFilteredIsExact ==
    last.op = "Job.findFiltered" =>
        /\ last.outcome = "ok"
        /\ last.result =
               Listed({j \in jobs : /\ TitleHolds(j, last.arg)
                                     /\ MinSalaryHolds(j, last.arg)
                                     /\ HasEquityHolds(j, last.arg)})

\* C4: for both managers and all filters f, g over the recognized keys,
\* findFiltered(f) is a subset of findAll() and the filter with the keys of
\* f and g returns the intersection of findFiltered(f) and findFiltered(g).
C4_FiltersNarrow ==
    /\ last.op = "Job.findFiltered" =>
          /\ last.outcome = "ok"
          /\ Elements(last.result) \subseteq Elements(JobFindAllResult)
          /\ \A g \in JobFilters : DisjointKeys(last.arg, g) =>
                LET qg == JobQuery(g)
                    qfg == JobQuery(Combined(last.arg, g))
                IN  /\ qg.outcome = "ok"
                    /\ qfg.outcome = "ok"
                    /\ Elements(qfg.result) = Elements(last.result) \cap Elements(qg.result)
    /\ last.op = "Company.findFiltered" =>
          /\ last.outcome = "ok"
          /\ Elements(last.result) \subseteq {CompanyOut(c) : c \in companies}
          /\ \A g \in CompanyFilters : DisjointKeys(last.arg, g) =>
                LET qg == CompanyQuery(g)
                    qfg == CompanyQuery(Combined(last.arg, g))
                IN  /\ qg.outcome = "ok"
                    /\ qfg.outcome = "ok"
                    /\ \A rfg \in qfg.results : \A rg \in qg.results :
                          Elements(rfg) = Elements(last.result) \cap Elements(rg)

(***************************************************************************)
(* Claims about create, get, update and remove, under Spec.                *)
(***************************************************************************)
Handles == {c.handle : c \in companies}

JobIds == {j.id : j \in jobs}

StoreUnchanged == UNCHANGED <<companies, jobs, nextId>>

\* The column a field of an update is stored in.
FieldColumn ==
    [name |-> "name", description |-> "description", numEmployees |-> "num_employees",
     logoUrl |-> "logo_url", title |-> "title", salary |-> "salary", equity |-> "equity"]

\* new is old with the fields of data set and every other column kept.
OnlyNamedChanged(old, new, data, columns) ==
    \A col \in columns :
        IF \E i \in 1..Len(data) : FieldColumn[data[i][1]] = col
        THEN \A i \in 1..Len(data) : FieldColumn[data[i][1]] = col => new[col] = data[i][2]
        ELSE new[col] = old[col]

\* Company.create on an existing handle fails with an error of class
\* duplicateClass and changes nothing; on a new handle it inserts one row
\* and returns it with its five fields.
CompanyCreateContract(duplicateClass) ==
    last'.op = "Company.create" =>
        LET data == last'.arg
        IN  IF data.handle \in Handles
            THEN /\ last'.outcome # "ok"
                 /\ IsA(last'.outcome, duplicateClass)
                 /\ StoreUnchanged
            ELSE /\ last'.outcome = "ok"
                 /\ \E row \in companies' :
                       /\ row \notin companies
                       /\ companies' = companies \cup {row}
                       /\ row = [handle |-> data.handle, name |-> data.name,
                                 description |-> data.description,
                                 num_employees |-> data.numEmployees,
                                 logo_url |-> data.logoUrl]
                 /\ last'.result = [handle |-> data.handle, name |-> data.name,
                                    description |-> data.description,
                                    numEmployees |-> data.numEmployees,
                                    logoUrl |-> data.logoUrl]
                 /\ UNCHANGED <<jobs, nextId>>

\* C5 as claimed: Company.create with an existing handle fails with
\* DuplicateError and leaves the companies table unchanged; with a new handle
\* it inserts one record and returns it with all five fields.
C5_CreateFailsWithDuplicateError == [][CompanyCreateContract("DuplicateError")]_vars

\* C5 as amended: Company.create with an existing handle fails with
\* BadRequestError (the class the code throws; it is no DuplicateError) and
\* leaves the companies table unchanged; with a new handle it inserts one
\* record and returns it with all five fields.
C5_CreateFailsWithBadRequestError == [][CompanyCreateContract("BadRequestError")]_vars

\* A create refused for a handle whose stored row differs from the data sent.
C5_Witness ==
    /\ last.op = "Company.create"
    /\ last.outcome = "BadRequestError"
    /\ \E c \in companies : c.handle = last.arg.handle /\ c.name # last.arg.name

\* C6: Job.create with a companyHandle that no existing company has fails
\* with BadRequestError, leaves the jobs table unchanged and issues no INSERT.
C6_CreateJobUnknownCompany ==
    [][(last'.op = "Job.create" /\ last'.arg.companyHandle \notin Handles) =>
          /\ last'.outcome = "BadRequestError"
          /\ StoreUnchanged
          /\ "INSERT" \notin Elements(last'.stmts)]_vars

\* A job refused for a handle no company has, while another company exists.
C6_Witness ==
    /\ last.op = "Job.create"
    /\ last.outcome = "BadRequestError"
    /\ companies # {}
    /\ last.arg.companyHandle \notin Handles

\* C7: Company.update and Job.update with an empty field mapping fail with
\* BadRequestError whether or not the identifier exists, change nothing and
\* send no statement to the store.
C7_EmptyUpdateIsBadRequest ==
    [][(last'.op \in {"Company.update", "Job.update"} /\ last'.arg[2] = <<>>) =>
          /\ last'.outcome = "BadRequestError"
          /\ StoreUnchanged
          /\ last'.stmts = <<>>]_vars

\* An empty update of a job that exists, refused.
C7_Witness ==
    /\ last.op = "Job.update"
    /\ last.arg[2] = <<>>
    /\ last.arg[1] \in JobIds
    /\ last.outcome = "BadRequestError"

\* C8: for both managers, get, update with a non-empty field mapping and
\* remove, called with an identifier the store does not hold, fail with
\* NotFoundError and leave both tables unchanged.
C8_MissingIdentifierIsNotFound ==
    [][/\ (last'.op \in {"Company.get", "Company.remove"} /\ last'.arg \notin Handles) =>
              (last'.outcome = "NotFoundError" /\ StoreUnchanged)
       /\ (/\ last'.op = "Company.update"
           /\ last'.arg[1] \notin Handles
           /\ last'.arg[2] # <<>>) =>
              (last'.outcome = "NotFoundError" /\ StoreUnchanged)
       /\ (last'.op \in {"Job.get", "Job.remove"} /\ last'.arg \notin JobIds) =>
              (last'.outcome = "NotFoundError" /\ StoreUnchanged)
       /\ (/\ last'.op = "Job.update"
           /\ last'.arg[1] \notin JobIds
           /\ last'.arg[2] # <<>>) =>
              (last'.outcome = "NotFoundError" /\ StoreUnchanged)]_vars

\* An update of a job the store does not hold, refused while it holds another.
C8_Witness ==
    /\ last.op = "Job.update"
    /\ last.outcome = "NotFoundError"
    /\ jobs # {}
    /\ companies # {}

\* C9: a successful update changes only the fields named in its data, of the
\* one record with that identifier (a nullable field may be set to null);
\* every other field and every other company and job record is unchanged,
\* and the returned record is the stored record after the update.
C9_UpdateChangesOnlyNamedFields ==
    [][/\ (last'.op = "Company.update" /\ last'.outcome = "ok") =>
              \E old \in companies : \E new \in companies' :
                  /\ old.handle = last'.arg[1]
                  /\ companies' \ {new} = companies \ {old}
                  /\ OnlyNamedChanged(old, new, last'.arg[2], CompanyColumns)
                  /\ UNCHANGED <<jobs, nextId>>
                  /\ last'.result =
                        [handle |-> new.handle, name |-> new.name,
                         description |-> new.description,
                         numEmployees |-> new.num_employees,
                         logoUrl |-> new.logo_url]
       /\ (last'.op = "Job.update" /\ last'.outcome = "ok") =>
              \E old \in jobs : \E new \in jobs' :
                  /\ old.id = last'.arg[1]
                  /\ jobs' \ {new} = jobs \ {old}
                  /\ OnlyNamedChanged(old, new, last'.arg[2], JobColumns)
                  /\ UNCHANGED <<companies, nextId>>
                  /\ last'.result =
                        [id |-> new.id, title |-> new.title, salary |-> new.salary,
                         equity |-> EquityOut(new.equity),
                         companyHandle |-> new.company_handle]]_vars

\* A job's equity set to null and its salary set, while another job exists.
C9_Witness ==
    /\ last.op = "Job.update"
    /\ last.outcome = "ok"
    /\ last.arg[2] = << <<"salary", <<2>>>>, <<"equity", NULL>> >>
    /\ last.result.equity = NULL
    /\ last.result.title = <<"a">>
    /\ Cardinality(jobs) = 2

\* C10: whatever Job.create and Job.remove calls came before, a successful
\* Job.create returns an id that no job of the store had at that moment, and
\* Job.get of that id right after returns a record equal to it in id, title,
\* salary, equity and companyHandle.
C10_CreateIdFreshAndRoundTrips ==
    [][(last'.op = "Job.create" /\ last'.outcome = "ok") =>
          /\ last'.result.id \notin JobIds
          /\ (JobGetRows(last.result.id) # {})'
          /\ (\A row \in JobGetRows(last.result.id) :
                 LET got == JobGetSelect(row)
                 IN  /\ got.id = last.result.id
                     /\ got.title = last.result.title
                     /\ got.salary = last.result.salary
                     /\ got.equity = last.result.equity
                     /\ got.companyHandle = last.result.companyHandle)']_vars

\* A job created after an earlier job was removed.
C10_Witness ==
    /\ last.op = "Job.create"
    /\ last.outcome = "ok"
    /\ last.result.id > Cardinality(jobs)
    /\ last.result.equity = <<"0.6">>

\* The ids the sequence has handed out that no job of the store has: the ids
\* of the jobs removed so far.
RemovedIds == (1..(nextId - 1)) \ JobIds

\* A successful Job.remove(id) deletes the one job with that id and nothing
\* else; an id once removed is never a job's id again; Job.get and Job.remove
\* of a removed id fail with NotFoundError, and so does Job.update of it,
\* except that with an empty field mapping it fails with emptyUpdateClass.
JobRemoveContract(emptyUpdateClass) ==
    /\ (last'.op = "Job.remove" /\ last'.outcome = "ok") =>
          /\ last'.arg \in JobIds
          /\ jobs' = {j \in jobs : j.id # last'.arg}
          /\ Cardinality(jobs') = Cardinality(jobs) - 1
          /\ last'.arg \in RemovedIds'
          /\ UNCHANGED <<companies, nextId>>
    /\ RemovedIds \subseteq RemovedIds'
    /\ (last'.op \in {"Job.get", "Job.remove"} /\ last'.arg \in RemovedIds) =>
          (last'.outcome = "NotFoundError" /\ StoreUnchanged)
    /\ (last'.op = "Job.update" /\ last'.arg[1] \in RemovedIds) =>
          /\ last'.outcome =
                 (IF last'.arg[2] = <<>> THEN emptyUpdateClass ELSE "NotFoundError")
          /\ StoreUnchanged

\* C11 as claimed: a successful Job.remove(id) deletes exactly the job with
\* that id and no other record, and from then on every Job.get(id),
\* Job.update(id, ...) and Job.remove(id) fails with NotFoundError.
C11_RemovedIdAlwaysNotFound == [][JobRemoveContract("NotFoundError")]_vars

\* C11 as amended: a successful Job.remove(id) deletes exactly the job with
\* that id and no other record, and from then on every Job.get(id), every
\* Job.remove(id) and every Job.update(id, data) with a non-empty field
\* mapping fails with NotFoundError; Job.update(id, {}) fails with
\* BadRequestError.
C11_RemovedIdNotFoundUnlessEmptyUpdate == [][JobRemoveContract("BadRequestError")]_vars

\* A removed job's id looked up while another job is in the store, after a
\* job was created since the removal.
C11_Witness ==
    /\ last.op = "Job.get"
    /\ last.arg \in RemovedIds
    /\ last.outcome = "NotFoundError"
    /\ \E j \in jobs : j.id > last.arg

\* C12: Company.get(handle) for a company of the store returns the company's
\* five fields and a jobs list holding the jobs whose companyHandle is that
\* handle, each once and no other; for a company without jobs the list is
\* empty.
C12_GetListsTheCompanysJobs ==
    (last.op = "Company.get" /\ last.arg \in Handles) =>
        LET expected == {j \in jobs : j.company_handle = last.arg}
        IN  /\ last.outcome = "ok"
            /\ \E c \in companies :
                  /\ c.handle = last.arg
                  /\ last.result.handle = c.handle
                  /\ last.result.name = c.name
                  /\ last.result.description = c.description
                  /\ last.result.numEmployees = c.num_employees
                  /\ last.result.logoUrl = c.logo_url
            /\ Len(last.result.jobs) = Cardinality(expected)
            /\ expected # {} => Elements(last.result.jobs) = {JobOut(j) : j \in expected}

\* A company read with its one job while the store holds another company's
\* job as well.
C12_Witness ==
    /\ last.op = "Company.get"
    /\ last.outcome = "ok"
    /\ Len(last.result.jobs) = 1
    /\ Cardinality(jobs) = 2

(***************************************************************************)
(* Claims about sqlForPartialUpdate, under SpecSql.                        *)
(***************************************************************************)
\* The storage name of a field: its alias when jsToSql has one, else its name.
StorageName(jsToSql, field) ==
    IF field \in DOMAIN jsToSql THEN jsToSql[field] ELSE field

\* What a call with a non-empty field mapping data and the aliases jsToSql
\* is to return: one fragment per field in the order of data, the i-th with
\* the field's storage name and placeholder $i, and the values in that order.
ReturnsFragments(data, jsToSql) ==
    /\ last.outcome = "ok"
    /\ Len(last.result.setCols) = Len(data)
    /\ \A i \in 1..Len(data) :
          last.result.setCols[i] = [col |-> StorageName(jsToSql, data[i][1]), ph |-> i]
    /\ Len(last.result.values) = Len(data)
    /\ \A i \in 1..Len(data) : last.result.values[i] = data[i][2]

\* C13: called with a non-empty field mapping of n fields and an alias
\* mapping, sqlForPartialUpdate returns n fragments in the order of the
\* fields, the i-th naming the i-th field's storage name and placeholder $i,
\* and the values in the same order; the fragments are the same whatever the
\* values are.
C13_FragmentsAndValuesInOrder ==
    (/\ last.op = "sqlForPartialUpdate"
     /\ last.arg[1] # <<>>
     /\ last.arg[2] # Undefined) =>
        /\ ReturnsFragments(last.arg[1], Val(last.arg[2]))
        /\ \A other \in FieldMappings :
              Keys(other) = Keys(last.arg[1]) =>
                  sqlForPartialUpdate(other, last.arg[2]).setCols = last.result.setCols

\* Two fields in an order other than that of the alias mapping, one with an
\* alias and one without, the value of one being the name of the other.
C13_Witness ==
    /\ last.op = "sqlForPartialUpdate"
    /\ last.outcome = "ok"
    /\ Keys(last.arg[1]) = <<"test1", "firstName">>
    /\ Values(last.arg[1]) = <<"age", "Sam">>
    /\ last.result.setCols[2].col = "first_name"

\* C14: called without an alias mapping, sqlForPartialUpdate returns for a
\* non-empty field mapping the fragments with each field's own name and the
\* values in order, raising no error, and fails with BadRequestError for an
\* empty field mapping.
C14_AliasMappingIsOptional ==
    (last.op = "sqlForPartialUpdate" /\ last.arg[2] = Undefined) =>
        IF last.arg[1] = <<>>
        THEN last.outcome = "BadRequestError"
        ELSE ReturnsFragments(last.arg[1], <<>>)

(***************************************************************************)
(* Claims about GET /jobs and GET /companies, under SpecGet.               *)
(***************************************************************************)
\* The query parameter is there with a text that is a number.
SuppliedNumber(param) == QueryTruthy(param) /\ ~isNaN(Number(Val(param)))

\* The filter a query of GET /jobs stands for.
JobFilterOf(query) ==
    [title     |-> query.title,
     minSalary |-> IF query.minSalary = Undefined THEN Undefined
                   ELSE Number(Val(query.minSalary)),
     hasEquity |-> IF query.hasEquity = Undefined THEN Undefined
                   ELSE <<Val(query.hasEquity) = <<"t", "r", "u", "e">>>>]

\* The query has some of title, minSalary and hasEquity, a number for
\* minSalary, and no other key.
JobFilterQuery(query) ==
    /\ ~NoQueryKeys(query)
    /\ query.name = Undefined
    /\ query.minEmployees = Undefined
    /\ query.maxEmployees = Undefined
    /\ query.minSalary # Undefined => SuppliedNumber(query.minSalary)

\* C15: GET /jobs with some of title, minSalary and hasEquity answers with
\* the list Job.findFiltered returns for that filter, and with no query
\* parameter with the list of Job.findAll().
C15_GetJobsAnswersTheFilter ==
    last.op = "GET /jobs" =>
        /\ NoQueryKeys(last.arg) =>
              (last.outcome = "ok" /\ last.result = JobFindAllResult)
        /\ JobFilterQuery(last.arg) =>
              /\ last.outcome = "ok"
              /\ JobQuery(JobFilterOf(last.arg)).outcome = "ok"
              /\ last.result = JobQuery(JobFilterOf(last.arg)).result

\* C16: GET /jobs with a minSalary that is not a number answers with
\* BadRequestError, and no statement reaches the store.
C16_GetJobsRejectsNonNumericMinSalary ==
    (/\ last.op = "GET /jobs"
     /\ last.arg.minSalary # Undefined
     /\ isNaN(Number(Val(last.arg.minSalary)))) =>
        (last.outcome = "BadRequestError" /\ last.stmts = <<>>)

\* C18: GET /companies with numbers for minEmployees and maxEmployees, the
\* first greater than the second, answers with BadRequestError, whatever the
\* integers (0 and negative ones too); Company.findFiltered is not called
\* with minEmployees greater than maxEmployees.
C18_CrossedBoundsAreRejected ==
    last.op = "GET /companies" =>
        /\ (/\ SuppliedNumber(last.arg.minEmployees)
            /\ SuppliedNumber(last.arg.maxEmployees)
            /\ Val(Number(Val(last.arg.minEmployees))) >
                   Val(Number(Val(last.arg.maxEmployees)))) =>
              last.outcome = "BadRequestError"
        /\ \A i \in 1..Len(last.calls) :
              (/\ last.calls[i].op = "Company.findFiltered"
               /\ HasOwn(last.calls[i].arg, "minEmployees")
               /\ HasOwn(last.calls[i].arg, "maxEmployees")) =>
                  Val(last.calls[i].arg.minEmployees) <= Val(last.calls[i].arg.maxEmployees)

\* C19: GET /companies does not call Company.findFiltered with a filter
\* mapping without keys; a query that has none of name, minEmployees and
\* maxEmployees with a non-empty text is answered with the list of
\* Company.findAll(), not with a failure of the store.
C19_NoEmptyFilterReachesFindFiltered ==
    last.op = "GET /companies" =>
        /\ \A i \in 1..Len(last.calls) :
              last.calls[i].op = "Company.findFiltered" => ~NoKeys(last.calls[i].arg)
        /\ (/\ ~QueryTruthy(last.arg.name)
            /\ ~QueryTruthy(last.arg.minEmployees)
            /\ ~QueryTruthy(last.arg.maxEmployees)) =>
              (last.outcome = "ok" /\ last.result \in CompanyFindAllResults)

(***************************************************************************)
(* Claims about the requests that change jobs, under SpecPatch.            *)
(***************************************************************************)
HasImmutableKey(body) == \E i \in 1..Len(body) : body[i][1] \in {"id", "companyHandle"}

\* C17: through every create, update and remove request each job keeps the
\* id and the companyHandle it was created with: a job of the store either
\* was there before the request with that id and companyHandle, or is the
\* one the request created; an update whose body has id or companyHandle is
\* answered with BadRequestError and changes nothing.
C17_IdAndCompanyHandleAreKept ==
    [][/\ \A new \in jobs' :
             IF new.id \in JobIds
             THEN \E old \in jobs :
                     old.id = new.id /\ old.company_handle = new.company_handle
             ELSE /\ last'.op = "Job.create"
                  /\ last'.outcome = "ok"
                  /\ last'.result.id = new.id
                  /\ last'.arg.companyHandle = new.company_handle
       /\ Cardinality(JobIds') = Cardinality(jobs')
       /\ (/\ last'.op \in {"PATCH /jobs/:id", "Job.update"}
           /\ HasImmutableKey(last'.arg[2])) =>
              /\ last'.outcome = "BadRequestError"
              /\ StoreUnchanged]_vars

\* An update of an existing job's id refused while its title is set as well.
C17_Witness ==
    /\ last.op = "PATCH /jobs/:id"
    /\ last.outcome = "BadRequestError"
    /\ last.arg[1] \in JobIds
    /\ Len(last.arg[2]) = 2
    /\ \E j \in jobs : j.id = last.arg[1] /\ j.title # <<"b">>

(***************************************************************************)
(* Claims about concurrent calls of Company.create, under SpecRace.        *)
(***************************************************************************)
\* The calls made with the handle of call i.
SameHandle(i) == {k \in DOMAIN creating : creating[k].data.handle = creating[i].data.handle}

\* C20: when the concurrent calls of Company.create with one handle, started
\* on a store without it, have all ended, whatever the interleaving, the
\* table has one record of that handle, one call has returned that record
\* and every other call has failed with the error create throws for a
\* duplicate (the spec's DuplicateError, the code's BadRequestError), none
\* with an error of the store.
C20_ConcurrentCreatesOneWinner ==
    (\A i \in DOMAIN creating : creating[i].pc = "done") =>
        \A i \in DOMAIN creating :
            Cardinality(SameHandle(i)) > 1 =>
                /\ Cardinality({c \in companies : c.handle = creating[i].data.handle}) = 1
                /\ Cardinality({k \in SameHandle(i) : creating[k].outcome = "ok"}) = 1
                /\ \A k \in SameHandle(i) :
                      IF creating[k].outcome = "ok"
                      THEN \E c \in companies : CompanyOut(c) = creating[k].result
                      ELSE creating[k].outcome = "BadRequestError"

====
